---------------------------- MODULE Spec2Model ----------------------------
(***************************************************************************)
(* A model of nba_total_calc.py: the projection engine                     *)
(* (compute_projection), the hedge engine (hedge_equalize), the CSV        *)
(* snapshot sink (save_snapshot) and the interactive loop (main).          *)
(*                                                                         *)
(* Numbers.  Python floats are modelled as exact rationals <<n, d>> with   *)
(* d > 0 and gcd(n, d) = 1; IEEE-754 rounding is not modelled.             *)
(* Strings are TLA+ strings; split, strip, upper, int(), float(), the      *)
(* substring test and the f-string number formats are computed character   *)
(* by character.                                                           *)
(* Optional values: None is <<>>, a present value v is <<v>>.              *)
(* A call's outcome is [exc, msg, val]: exc = "" and val = <<result>> on   *)
(* return, exc = the exception class and val = <<>> on raise.              *)
(***************************************************************************)
EXTENDS Integers, Sequences, FiniteSets, TLC

VARIABLES
    call,    \* arguments of the last compute_projection call (<<>>: none yet)
    res,     \* outcome of the last compute_projection call
    prev,    \* history: <<[elapsed, alpha_used]>> of the last auto-alpha result discarded
    hcall,   \* arguments of the last hedge_equalize call (<<>>: none)
    hres,    \* outcome of the last hedge_equalize call
    file,    \* nba_total_snapshots.csv: [exists, rows]
    saved,   \* history: the results handed to save_snapshot, in call order
    clock,   \* datetime.now(), in ticks
    pc,      \* main: the prompt the loop is waiting at, or "off" / "done"
    loc,     \* main: the local variables of the loop
    typed    \* main: <<prompt, text>> of the last line read by input()

vars == <<call, res, prev, hcall, hres, file, saved, clock, pc, loc, typed>>

-----------------------------------------------------------------------------
(* Optional values and outcomes *)

None == <<>>

Some(v) == <<v>>

Return(v) == [exc |-> "", msg |-> "", val |-> <<v>>]

Raise(e, m) == [exc |-> e, msg |-> m, val |-> <<>>]

NoOutcome == [exc |-> "", msg |-> "", val |-> <<>>]

Returned(o) == o.exc = "" /\ o.val # <<>>

-----------------------------------------------------------------------------
(* Exact rational arithmetic standing for Python float arithmetic *)

RECURSIVE GCD(_, _)
GCD(a, b) == IF b = 0 THEN a ELSE GCD(b, a % b)

Abs(n) == IF n < 0 THEN -n ELSE n

Q(n, d) ==
    LET s == IF d < 0 THEN -1 ELSE 1
        g == GCD(Abs(n), Abs(d))
    IN  <<(s * n) \div g, (s * d) \div g>>

I(n) == <<n, 1>>

RAdd(x, y) ==
    LET g == GCD(x[2], y[2])
    IN  Q(x[1] * (y[2] \div g) + y[1] * (x[2] \div g), x[2] * (y[2] \div g))

RNeg(x) == <<-x[1], x[2]>>

RSub(x, y) == RAdd(x, RNeg(y))

RMul(x, y) ==
    LET g1 == GCD(Abs(x[1]), y[2])
        g2 == GCD(Abs(y[1]), x[2])
    IN  IF x[1] = 0 \/ y[1] = 0 THEN <<0, 1>>
        ELSE <<(x[1] \div g1) * (y[1] \div g2), (x[2] \div g2) * (y[2] \div g1)>>

\* x / y for y # 0 (Python raises ZeroDivisionError before dividing by 0.0)
RDiv(x, y) == RMul(x, Q(y[2], y[1]))

RLt(x, y) == x[1] * y[2] < y[1] * x[2]

RLe(x, y) == x[1] * y[2] <= y[1] * x[2]

RGe(x, y) == RLe(y, x)

RGt(x, y) == RLt(y, x)

\* Python's max(a, b): b if b > a else a;  min(a, b): b if b < a else a
RMax(a, b) == IF RGt(b, a) THEN b ELSE a

RMin(a, b) == IF RLt(b, a) THEN b ELSE a

RAbs(x) == <<Abs(x[1]), x[2]>>

-----------------------------------------------------------------------------
(* Strings *)

IsSpace(c) == c = " "

RECURSIVE LStrip(_)
LStrip(s) == IF Len(s) > 0 /\ IsSpace(SubSeq(s, 1, 1)) THEN LStrip(SubSeq(s, 2, Len(s))) ELSE s

RECURSIVE RStrip(_)
RStrip(s) ==
    IF Len(s) > 0 /\ IsSpace(SubSeq(s, Len(s), Len(s)))
    THEN RStrip(SubSeq(s, 1, Len(s) - 1)) ELSE s

\* str.strip()
Strip(s) == RStrip(LStrip(s))

UpperChar(c) ==
    CASE c = "a" -> "A" [] c = "b" -> "B" [] c = "c" -> "C" [] c = "d" -> "D"
      [] c = "e" -> "E" [] c = "f" -> "F" [] c = "g" -> "G" [] c = "h" -> "H"
      [] c = "i" -> "I" [] c = "j" -> "J" [] c = "k" -> "K" [] c = "l" -> "L"
      [] c = "m" -> "M" [] c = "n" -> "N" [] c = "o" -> "O" [] c = "p" -> "P"
      [] c = "q" -> "Q" [] c = "r" -> "R" [] c = "s" -> "S" [] c = "t" -> "T"
      [] c = "u" -> "U" [] c = "v" -> "V" [] c = "w" -> "W" [] c = "x" -> "X"
      [] c = "y" -> "Y" [] c = "z" -> "Z" [] OTHER -> c

LowerChar(c) ==
    CASE c = "A" -> "a" [] c = "B" -> "b" [] c = "C" -> "c" [] c = "D" -> "d"
      [] c = "E" -> "e" [] c = "F" -> "f" [] c = "G" -> "g" [] c = "H" -> "h"
      [] c = "I" -> "i" [] c = "J" -> "j" [] c = "K" -> "k" [] c = "L" -> "l"
      [] c = "M" -> "m" [] c = "N" -> "n" [] c = "O" -> "o" [] c = "P" -> "p"
      [] c = "Q" -> "q" [] c = "R" -> "r" [] c = "S" -> "s" [] c = "T" -> "t"
      [] c = "U" -> "u" [] c = "V" -> "v" [] c = "W" -> "w" [] c = "X" -> "x"
      [] c = "Y" -> "y" [] c = "Z" -> "z" [] OTHER -> c

RECURSIVE Upper(_)
Upper(s) == IF Len(s) = 0 THEN "" ELSE UpperChar(SubSeq(s, 1, 1)) \o Upper(SubSeq(s, 2, Len(s)))

RECURSIVE Lower(_)
Lower(s) == IF Len(s) = 0 THEN "" ELSE LowerChar(SubSeq(s, 1, 1)) \o Lower(SubSeq(s, 2, Len(s)))

\* Python's `needle in s`
Contains(s, needle) ==
    \E i \in 1..(Len(s) - Len(needle) + 1) : SubSeq(s, i, i + Len(needle) - 1) = needle

StartsWith(s, p) == Len(s) >= Len(p) /\ SubSeq(s, 1, Len(p)) = p

\* index of the first occurrence of the one-character string sep in s, 0 if none
RECURSIVE FindFrom(_, _, _)
FindFrom(s, sep, i) ==
    IF i > Len(s) THEN 0
    ELSE IF SubSeq(s, i, i) = sep THEN i ELSE FindFrom(s, sep, i + 1)

\* str.split(sep) for a one-character separator
RECURSIVE Split(_, _)
Split(s, sep) ==
    LET i == FindFrom(s, sep, 1)
    IN  IF i = 0 THEN <<s>>
        ELSE <<SubSeq(s, 1, i - 1)>> \o Split(SubSeq(s, i + 1, Len(s)), sep)

\* sep.join(parts)
RECURSIVE Join(_, _)
Join(parts, sep) ==
    IF Len(parts) = 0 THEN ""
    ELSE IF Len(parts) = 1 THEN parts[1]
    ELSE parts[1] \o sep \o Join(Tail(parts), sep)

DigitVal(c) ==
    CASE c = "0" -> 0 [] c = "1" -> 1 [] c = "2" -> 2 [] c = "3" -> 3 [] c = "4" -> 4
      [] c = "5" -> 5 [] c = "6" -> 6 [] c = "7" -> 7 [] c = "8" -> 8 [] c = "9" -> 9
      [] OTHER -> -1

AllDigits(s) == Len(s) > 0 /\ \A i \in 1..Len(s) : DigitVal(SubSeq(s, i, i)) >= 0

RECURSIVE DigitsVal(_)
DigitsVal(s) ==
    IF Len(s) = 0 THEN 0
    ELSE 10 * DigitsVal(SubSeq(s, 1, Len(s) - 1)) + DigitVal(SubSeq(s, Len(s), Len(s)))

RECURSIVE Pow10(_)
Pow10(k) == IF k = 0 THEN 1 ELSE 10 * Pow10(k - 1)

HasSign(s) == Len(s) > 0 /\ SubSeq(s, 1, 1) \in {"+", "-"}

Unsigned(s) == IF HasSign(s) THEN SubSeq(s, 2, Len(s)) ELSE s

SignOf(s) == IF Len(s) > 0 /\ SubSeq(s, 1, 1) = "-" THEN -1 ELSE 1

\* int(s): surrounding whitespace, an optional sign, decimal digits
\* (digit-group underscores and non-ASCII digits are not modelled)
IntLiteral(s) == AllDigits(Unsigned(Strip(s)))

IntOf(s) == SignOf(Strip(s)) * DigitsVal(Unsigned(Strip(s)))

\* float(s): surrounding whitespace, an optional sign, digits with an optional
\* fraction (exponents, inf and nan are not modelled)
FloatLiteral(s) ==
    LET p == Split(Unsigned(Strip(s)), ".")
    IN  \/ Len(p) = 1 /\ AllDigits(p[1])
        \/ Len(p) = 2 /\ (p[1] = "" \/ AllDigits(p[1])) /\ (p[2] = "" \/ AllDigits(p[2]))
                      /\ ~(p[1] = "" /\ p[2] = "")

FloatOf(s) ==
    LET p == Split(Unsigned(Strip(s)), ".")
        w == DigitsVal(p[1])
        f == IF Len(p) = 2 THEN p[2] ELSE ""
    IN  Q(SignOf(Strip(s)) * (w * Pow10(Len(f)) + DigitsVal(f)), Pow10(Len(f)))

RECURSIVE Zeros(_)
Zeros(k) == IF k <= 0 THEN "" ELSE "0" \o Zeros(k - 1)

\* f"{x:.{d}f}": x rounded to d decimals (ties to even), sign and zero padding kept
FormatFixed(x, d) ==
    LET a     == RAbs(x)
        num   == a[1] * Pow10(d)
        fl    == num \div a[2]
        rem2  == 2 * (num % a[2])
        n     == IF rem2 > a[2] \/ (rem2 = a[2] /\ fl % 2 = 1) THEN fl + 1 ELSE fl
        whole == ToString(n \div Pow10(d))
        frac  == ToString(n % Pow10(d))
    IN  (IF x[1] < 0 THEN "-" ELSE "")
        \o whole
        \o (IF d = 0 THEN "" ELSE "." \o Zeros(d - Len(frac)) \o frac)

-----------------------------------------------------------------------------
(* helpers *)

\* parse_mmss(s): minutes as a number from "mm:ss"
parse_mmss(s) ==
    LET parts == Split(Strip(s), ":")
    IN  IF Len(parts) # 2
        THEN Raise("ValueError", "Time must be mm:ss (e.g., 7:10).")
        ELSE IF ~IntLiteral(parts[1]) \/ ~IntLiteral(parts[2])
        THEN Raise("ValueError", "invalid literal for int() with base 10")
        ELSE LET mm == IntOf(parts[1])
                 ss == IntOf(parts[2])
             IN  IF mm < 0 \/ ss < 0 \/ ss >= 60
                 THEN Raise("ValueError", "Invalid mm:ss.")
                 ELSE Return(RAdd(I(mm), Q(ss, 60)))

clamp_no_floor(x, lo, hi) == RMin(hi, x)

\* clamp(x, lo, hi) = max(lo, min(hi, x))
clamp(x, lo, hi) == RMax(lo, RMin(hi, x))

\* auto_alpha(elapsed_min) = clamp(0.35 + 0.012 * elapsed_min, 0.35, 0.90)
auto_alpha(elapsed_min) ==
    clamp(RAdd(Q(35, 100), RMul(Q(12, 1000), elapsed_min)), Q(35, 100), Q(90, 100))

\* dec_from_american(a)
dec_from_american(a) ==
    IF a[1] = 0 THEN Raise("ValueError", "American odds cannot be 0.")
    ELSE IF a[1] < 0 THEN Return(RAdd(I(1), RDiv(I(100), RAbs(a))))
    ELSE Return(RAdd(I(1), RDiv(a, I(100))))

-----------------------------------------------------------------------------
(* core: compute_projection *)

BoundsMsg == "Elapsed time out of bounds. Check quarter/time left."

\* elapsed = (quarter - 1) * 12.0 + (12.0 - tleft)
Elapsed(quarter, tleft) == RAdd(I((quarter - 1) * 12), RSub(I(12), tleft))

\* if elapsed <= 0 or elapsed > 48
ElapsedOutOfBounds(elapsed) == RLe(elapsed, I(0)) \/ RGt(elapsed, I(48))

\* alpha_used = auto_alpha(elapsed) if alpha is None else clamp(alpha, 0.05, 0.95)
AlphaUsed(alpha, elapsed) ==
    IF alpha = None THEN auto_alpha(elapsed) ELSE clamp(alpha[1], Q(5, 100), Q(95, 100))

Boost(a) ==
    RAdd(IF a.bonus THEN a.bonus_boost_ppm ELSE I(0),
         IF a.ft_parade THEN Q(35, 100) ELSE I(0))

OtAdj(a) == RMul(RDiv(a.ot_prob_pct, I(100)), a.ot_expected_points)

BlendedProj(a, elapsed, alpha_used) ==
    LET pace_ppm      == RDiv(a.total_points, elapsed)
        baseline_rate == RDiv(a.pregame_total, I(48))
        blended_rate  == RAdd(RMul(alpha_used, RAdd(pace_ppm, Boost(a))),
                              RMul(RSub(I(1), alpha_used), baseline_rate))
        blended_proj  == RAdd(a.total_points, RMul(blended_rate, RSub(I(48), elapsed)))
    IN  IF a.ot_on THEN RAdd(blended_proj, OtAdj(a)) ELSE blended_proj

BonusFlags_both(a, tleft) ==
    (IF a.bonus /\ a.quarter <= 3 /\ RGt(tleft, I(6)) THEN <<"EARLY_BONUS_HIGH_RISK">> ELSE <<>>)
    \o (IF a.bonus THEN <<"BONUS/WHISTLES_ON">> ELSE <<>>)

BonusFlags(a, tleft) ==
    IF a.bonus /\ a.quarter <= 3 /\ RGt(tleft, I(6)) THEN <<"EARLY_BONUS_HIGH_RISK">>
    ELSE IF a.bonus THEN <<"BONUS/WHISTLES_ON">>
    ELSE <<>>

FtParadeFlags(a) == IF a.ft_parade THEN <<"FT_PARADE">> ELSE <<>>

FtRateFlags(a, elapsed) ==
    IF a.fta_total = None THEN <<>>
    ELSE LET fta_per_min == RDiv(a.fta_total[1], elapsed)
             tail        == "(" \o FormatFixed(fta_per_min, 2) \o "/min)"
         IN  IF RGe(fta_per_min, Q(110, 100)) THEN <<"HIGH_FT_RATE" \o tail>>
             ELSE IF RGe(fta_per_min, Q(85, 100)) THEN <<"ELEVATED_FT_RATE" \o tail>>
             ELSE <<"FT_RATE_OK" \o tail>>

ThreePtFlags(a) ==
    IF a.three_pt_pct = None THEN <<>>
    ELSE LET p    == a.three_pt_pct[1]
             tail == "(" \o FormatFixed(RMul(p, I(100)), 1) \o "%)"
         IN  IF RGe(p, Q(42, 100)) THEN <<"3P_HOT" \o tail>>
             ELSE IF RLe(p, Q(31, 100)) THEN <<"3P_COLD" \o tail>>
             ELSE <<"3P_NORMAL" \o tail>>

OtFlags(a) ==
    IF a.ot_on
    THEN <<"OT_ON(" \o FormatFixed(a.ot_prob_pct, 1) \o "% -> +"
           \o FormatFixed(OtAdj(a), 1) \o " pts)">>
    ELSE <<>>

\* the flags list, in the order the code appends to it
Flags(a, tleft, elapsed) ==
    BonusFlags(a, tleft) \o FtParadeFlags(a) \o FtRateFlags(a, elapsed)
    \o ThreePtFlags(a) \o OtFlags(a)

\* flags=";".join(flags) if flags else "NONE"
FlagsField(flags) == IF Len(flags) > 0 THEN Join(flags, ";") ELSE "NONE"

Lean_under_first(edge, edge_threshold) ==
    IF RLe(edge, RNeg(edge_threshold)) THEN "LEAN: UNDER"
    ELSE IF RGe(edge, edge_threshold) THEN "LEAN: OVER"
    ELSE "PASS / WAIT"

Lean(edge, edge_threshold) ==
    IF RGe(edge, edge_threshold) THEN "LEAN: OVER"
    ELSE IF RLe(edge, RNeg(edge_threshold)) THEN "LEAN: UNDER"
    ELSE "PASS / WAIT"

CalcResult(a, tleft, elapsed, now) ==
    LET alpha_used   == AlphaUsed(a.alpha, elapsed)
        pace_ppm     == RDiv(a.total_points, elapsed)
        blended_proj == BlendedProj(a, elapsed, alpha_used)
        edge         == RSub(blended_proj, a.live_total)
    IN  [timestamp           |-> now,
         quarter             |-> a.quarter,
         time_left           |-> a.time_left_mmss,
         total_points        |-> a.total_points,
         live_total          |-> a.live_total,
         pregame_total       |-> a.pregame_total,
         elapsed_min         |-> elapsed,
         alpha_used          |-> alpha_used,
         pace_ppm            |-> pace_ppm,
         pace_proj           |-> RMul(pace_ppm, I(48)),
         blended_proj        |-> blended_proj,
         edge_vs_live        |-> edge,
         needed_ppm_for_live |-> RDiv(RSub(a.live_total, a.total_points),
                                      RSub(I(48), elapsed)),
         lean                |-> Lean(edge, a.edge_threshold),
         flags               |-> FlagsField(Flags(a, tleft, elapsed))]

\* compute_projection(...) called at time now
compute_projection(a, now) ==
    LET t == parse_mmss(a.time_left_mmss)
    IN  IF t.exc # "" THEN t
        ELSE LET tleft   == t.val[1]
                 elapsed == Elapsed(a.quarter, tleft)
             IN  IF ElapsedOutOfBounds(elapsed) THEN Raise("ValueError", BoundsMsg)
                 \* needed_ppm = (live_total - total_points) / (48.0 - elapsed)
                 ELSE IF RSub(I(48), elapsed)[1] = 0
                 THEN Raise("ZeroDivisionError", "float division by zero")
                 ELSE Return(CalcResult(a, tleft, elapsed, now))

-----------------------------------------------------------------------------
(* hedge: hedge_equalize *)

\* my_side = my_side.upper().strip()
NormSide(my_side) == Strip(Upper(my_side))

SideValid_any(side) == TRUE

\* my_side in ("UNDER", "OVER")
SideValid(side) == side \in {"UNDER", "OVER"}

EqualizedStake_swapped(my_stake, dec0, dech) == RDiv(RMul(my_stake, dech), dec0)

\* hedge_stake = my_stake * dec0 / dech
EqualizedStake(my_stake, dec0, dech) == RDiv(RMul(my_stake, dec0), dech)

\* clv = (my_line - live_total) if my_side == "UNDER" else (live_total - my_line)
Clv(side, my_line, live_total) ==
    IF side = "UNDER" THEN RSub(my_line, live_total) ELSE RSub(live_total, my_line)

IsBad(f) == Contains(f, "HIGH_RISK") \/ Contains(f, "FT_PARADE") \/ Contains(f, "HIGH_FT_RATE")

IsWarn(f) ==
    Contains(f, "BONUS") \/ Contains(f, "ELEVATED_FT_RATE") \/ Contains(f, "3P_")
    \/ Contains(f, "OT_ON")

\* bad = sum(... for f in flags)
RECURSIVE BadCount(_)
BadCount(flags) ==
    IF Len(flags) = 0 THEN 0
    ELSE (IF IsBad(Head(flags)) THEN 1 ELSE 0) + BadCount(Tail(flags))

\* warn = sum(... for f in flags)
RECURSIVE WarnCount(_)
WarnCount(flags) ==
    IF Len(flags) = 0 THEN 0
    ELSE (IF IsWarn(Head(flags)) THEN 1 ELSE 0) + WarnCount(Tail(flags))

Suggestion_hold_first(clv, bad, warn) ==
    IF RGe(clv, I(6)) THEN "Hold (good CLV)"
    ELSE IF RGe(clv, I(6)) /\ (bad >= 1 \/ warn >= 2) THEN "Consider SMALL hedge"
    ELSE IF RGe(clv, I(3)) /\ bad >= 1 THEN "Watch closely (whistle risk)"
    ELSE "No hedge signal"

Suggestion(clv, bad, warn) ==
    IF RGe(clv, I(6)) /\ (bad >= 1 \/ warn >= 2) THEN "Consider SMALL hedge"
    ELSE IF RGe(clv, I(6)) THEN "Hold (good CLV)"
    ELSE IF RGe(clv, I(3)) /\ bad >= 1 THEN "Watch closely (whistle risk)"
    ELSE "No hedge signal"

MiddleNote(side, my_line, hedge_line) ==
    IF side = "UNDER"
    THEN IF RLt(hedge_line, my_line)
         THEN "Middle range (both win): " \o FormatFixed(hedge_line, 1) \o " to "
              \o FormatFixed(my_line, 1) \o " (excluding pushes)."
         ELSE "No classic middle (hedge line not below your under line)."
    ELSE IF RGt(hedge_line, my_line)
         THEN "Middle range (both win): " \o FormatFixed(my_line, 1) \o " to "
              \o FormatFixed(hedge_line, 1) \o " (excluding pushes)."
         ELSE "No classic middle (hedge line not above your over line)."

HedgeResult(h, side, dec0, dech) ==
    LET hedge_stake == EqualizedStake(h.my_stake, dec0, dech)
        clv         == Clv(side, h.my_line, h.live_total)
        win0        == RMul(h.my_stake, RSub(dec0, I(1)))
        lose0       == RNeg(h.my_stake)
        winh        == RMul(hedge_stake, RSub(dech, I(1)))
        loseh       == RNeg(hedge_stake)
    IN  [suggestion            |-> Suggestion(clv, BadCount(h.flags), WarnCount(h.flags)),
         equalized_hedge_stake |-> hedge_stake,
         middle_note           |-> MiddleNote(side, h.my_line, h.hedge_line),
         worst_case_profit     |-> RMin(RAdd(win0, loseh), RAdd(lose0, winh)),
         best_case_profit      |-> RAdd(win0, winh)]

\* hedge_equalize(...)
hedge_equalize(h) ==
    LET side == NormSide(h.my_side)
        d0   == dec_from_american(h.my_odds_american)
        dh   == dec_from_american(h.hedge_odds_american)
    IN  IF ~SideValid(side) THEN Raise("ValueError", "my_side must be UNDER or OVER.")
        ELSE IF d0.exc # "" THEN d0
        ELSE IF dh.exc # "" THEN dh
        ELSE Return(HedgeResult(h, side, d0.val[1], dh.val[1]))

-----------------------------------------------------------------------------
(* CSV snapshots: save_snapshot *)

\* The file is [exists, rows]; a row is the header line (the field names in
\* order) or a data line (the result as a field-to-value mapping, which
\* csv.DictWriter writes in field-name order).

\* list(asdict(result).keys())
FieldNames ==
    <<"timestamp", "quarter", "time_left", "total_points", "live_total", "pregame_total",
      "elapsed_min", "alpha_used", "pace_ppm", "pace_proj", "blended_proj", "edge_vs_live",
      "needed_ppm_for_live", "lean", "flags">>

HeaderLine == [kind |-> "header", names |-> FieldNames]

DataLine(result) == [kind |-> "row", values |-> result]

save_snapshot_header_always(f, result) ==
    [exists |-> TRUE, rows |-> f.rows \o <<HeaderLine>> \o <<DataLine(result)>>]

\* save_snapshot(result) on the file f: the file afterwards
save_snapshot(f, result) ==
    LET new_file == ~f.exists
    IN  [exists |-> TRUE,
         rows   |-> f.rows \o (IF new_file THEN <<HeaderLine>> ELSE <<>>)
                           \o <<DataLine(result)>>]

-----------------------------------------------------------------------------
(* Callers of the core: argument domains *)

MaxQuarter == 5

Args(q, t, p, l, g, al, thr, b, ft, fta, tp, ot) ==
    [quarter            |-> q,
     time_left_mmss     |-> t,
     total_points       |-> p,
     live_total         |-> l,
     pregame_total      |-> g,
     alpha              |-> al,
     edge_threshold     |-> thr,
     bonus              |-> b,
     ft_parade          |-> ft,
     bonus_boost_ppm    |-> Q(25, 100),
     fta_total          |-> fta,
     three_pt_pct       |-> tp,
     ot_on              |-> ot,
     ot_prob_pct        |-> I(6),
     ot_expected_points |-> I(10)]

Quarters == 0..MaxQuarter

ClockStrings ==
    {"12:00", "11:30", "6:30", "6:00", "0:30", "0:00", "13:00", "24:30", "6:60",
     "-1:00", "7", "1:2:3", "x:00", " 6:00 ", ""}

Alphas == {None, Some(I(-1)), Some(Q(5, 100)), Some(Q(1, 2)), Some(Q(95, 100)), Some(I(2))}

\* quarter / clock / alpha combinations, everything else at its default
ClockCalls ==
    {Args(q, t, I(100), I(200), I(200), al, I(4), FALSE, FALSE, None, None, FALSE) :
        q \in Quarters, t \in ClockStrings, al \in Alphas}

\* edges on, above and below thresholds of either sign
LeanCalls ==
    {Args(q, t, I(100), I(l), I(200), al, I(thr), FALSE, FALSE, None, None, FALSE) :
        q \in {2, 3}, t \in {"12:00", "0:00"}, l \in {190, 196, 200, 204, 210},
        al \in {None, Some(Q(1, 2))}, thr \in {-4, 0, 4, 10}}

\* every combination of the flag inputs, on and off the flag thresholds
FlagCalls ==
    {Args(q, t, I(150), I(224), I(240), None, I(4), b, ft, fta, tp, ot) :
        q \in {1, 3, 4}, t \in {"6:00", "6:30"}, b \in BOOLEAN, ft \in BOOLEAN,
        fta \in {None, Some(I(20)), Some(Q(51, 2)), Some(I(33))},
        tp \in {None, Some(Q(31, 100)), Some(Q(35, 100)), Some(Q(42, 100))},
        ot \in BOOLEAN}

ProjCalls == ClockCalls \cup LeanCalls \cup FlagCalls

NoFile == [exists |-> FALSE, rows |-> <<>>]

\* main's local variables; <<>> is "not assigned in this iteration"
Locals(pregame, thr) ==
    [quarter |-> None, tleft |-> None, pts |-> None, live |-> None,
     pregame |-> pregame, thr |-> thr, alpha |-> None,
     bonus |-> FALSE, ftparade |-> FALSE, fta |-> None, tpct |-> None, ot_on |-> FALSE,
     otp |-> I(6), otpts |-> I(10),
     my_side |-> None, my_line |-> None, my_stake |-> None, my_odds |-> None,
     hedge_line |-> None]

\* pregame = 228.5; thr = 4.0
InitialLocals == Locals(Q(457, 2), I(4))

Init ==
    /\ call = <<>>
    /\ res = NoOutcome
    /\ prev = <<>>
    /\ hcall = <<>>
    /\ hres = NoOutcome
    /\ file = NoFile
    /\ saved = <<>>
    /\ clock = 0
    /\ pc = "off"
    /\ loc = InitialLocals
    /\ typed = <<>>

\* history: elapsed time and alpha of an auto-alpha result
AutoSummary(c, o) ==
    IF c # <<>> /\ Returned(o) /\ c[1].alpha = None
    THEN <<[elapsed |-> o.val[1].elapsed_min, alpha_used |-> o.val[1].alpha_used]>>
    ELSE <<>>

\* a caller with no result in hand invokes compute_projection with arguments
\* drawn from Calls
CallComputeProjection(Calls) ==
    /\ pc = "off"
    /\ call = <<>>
    /\ \E a \in Calls :
        /\ call' = <<a>>
        /\ res' = compute_projection(a, clock)
    /\ UNCHANGED <<prev, hcall, hres, file, saved, clock, pc, loc, typed>>

\* the caller is done with the outcome (results are values: consumed, then
\* discarded)
Discard ==
    /\ pc = "off"
    /\ call # <<>>
    /\ call' = <<>>
    /\ res' = NoOutcome
    /\ prev' = IF AutoSummary(call, res) # <<>> THEN AutoSummary(call, res) ELSE prev
    /\ hcall' = <<>>
    /\ hres' = NoOutcome
    /\ UNCHANGED <<file, saved, clock, pc, loc, typed>>

ProjNext == CallComputeProjection(ProjCalls) \/ Discard

\* the projection engine called repeatedly over ProjCalls
SpecProj == Init /\ [][ProjNext]_vars

\* flags_list = [] if r.flags == "NONE" else r.flags.split(";")
FlagsList(flags) == IF flags = "NONE" THEN <<>> ELSE Split(flags, ";")

-----------------------------------------------------------------------------
(* Properties of compute_projection *)

TheCall == call[1]

TheResult == res.val[1]

LeanOverlapCase ==
    /\ Returned(res)
    /\ RGe(TheResult.edge_vs_live, TheCall.edge_threshold)
    /\ RLe(TheResult.edge_vs_live, RNeg(TheCall.edge_threshold))

\* C2 (as stated): lean is OVER if edge_vs_live >= edge_threshold, UNDER if
\* edge_vs_live <= -edge_threshold, and PASS otherwise, for thresholds of any
\* sign, where edge_vs_live = blended_proj - live_total.
C2_LeanAsStated ==
    Returned(res) =>
        LET edge == TheResult.edge_vs_live
            thr  == TheCall.edge_threshold
        IN  /\ edge = RSub(TheResult.blended_proj, TheCall.live_total)
            /\ RGe(edge, thr) => TheResult.lean = "LEAN: OVER"
            /\ RLe(edge, RNeg(thr)) => TheResult.lean = "LEAN: UNDER"
            /\ (~RGe(edge, thr) /\ ~RLe(edge, RNeg(thr))) => TheResult.lean = "PASS / WAIT"

\* C2 (amended): the OVER test is made first. lean is OVER if
\* edge_vs_live >= edge_threshold; otherwise UNDER if edge_vs_live <=
\* -edge_threshold; otherwise PASS. With a zero or negative threshold both
\* tests can hold, and lean is then OVER.
C2_LeanFirstMatch ==
    Returned(res) =>
        LET edge == TheResult.edge_vs_live
            thr  == TheCall.edge_threshold
        IN  /\ edge = RSub(TheResult.blended_proj, TheCall.live_total)
            /\ RGe(edge, thr) => TheResult.lean = "LEAN: OVER"
            /\ (RLt(edge, thr) /\ RLe(edge, RNeg(thr))) => TheResult.lean = "LEAN: UNDER"
            /\ (RLt(edge, thr) /\ RGt(edge, RNeg(thr))) => TheResult.lean = "PASS / WAIT"

\* C2 witness: a non-positive threshold with both tests true; lean is OVER
C2_Witness ==
    /\ LeanOverlapCase
    /\ RLe(TheCall.edge_threshold, I(0))
    /\ TheResult.lean = "LEAN: OVER"

\* C3 (as stated): when elapsed is exactly 48 minutes, so that 48 - elapsed
\* is a zero divisor, compute_projection fails with the same out-of-bounds
\* error as the elapsed-time bounds check.
C3_ZeroDivisorIsRangeError ==
    (/\ call # <<>>
     /\ parse_mmss(TheCall.time_left_mmss).exc = ""
     /\ Elapsed(TheCall.quarter, parse_mmss(TheCall.time_left_mmss).val[1]) = I(48))
    => res = Raise("ValueError", BoundsMsg)

\* C4 (as stated): every call with quarter > 4 and a well-formed mm:ss clock
\* (any non-negative minutes, seconds 0..59) fails, so that no projection
\* result is ever returned for a quarter beyond 4.  (Which error the failure
\* is at elapsed = 48 exactly is C3's matter; here any raise counts.)
C4_QuarterBeyondFourRejected ==
    (/\ call # <<>>
     /\ TheCall.quarter > 4
     /\ parse_mmss(TheCall.time_left_mmss).exc = "")
    => (res.exc # "" /\ res.val = <<>>)

FlagCategory(f) ==
    IF f \in {"EARLY_BONUS_HIGH_RISK", "BONUS/WHISTLES_ON"} THEN 1
    ELSE IF f = "FT_PARADE" THEN 2
    ELSE IF \/ StartsWith(f, "HIGH_FT_RATE(")
            \/ StartsWith(f, "ELEVATED_FT_RATE(")
            \/ StartsWith(f, "FT_RATE_OK(") THEN 3
    ELSE IF \/ StartsWith(f, "3P_HOT(")
            \/ StartsWith(f, "3P_COLD(")
            \/ StartsWith(f, "3P_NORMAL(") THEN 4
    ELSE IF StartsWith(f, "OT_ON(") THEN 5
    ELSE 0

\* C6: the flags of a result are one flag at most of each category (bonus,
\* FT_PARADE, free-throw rate, three-point, OT_ON), in that order.
C6_FlagsOnePerCategoryInOrder ==
    Returned(res) =>
        LET fl == FlagsList(TheResult.flags)
        IN  /\ \A i \in 1..Len(fl) : FlagCategory(fl[i]) \in 1..5
            /\ \A i \in 1..Len(fl) : \A j \in 1..Len(fl) :
                   i < j => FlagCategory(fl[i]) < FlagCategory(fl[j])

\* C6 witness: a result carrying a flag of every category
C6_Witness ==
    /\ Returned(res)
    /\ Len(FlagsList(TheResult.flags)) = 5
    /\ TheCall.bonus /\ TheCall.quarter <= 3

\* C7: without an alpha, alpha_used = clamp(0.35 + 0.012 * elapsed, 0.35,
\* 0.90), within [0.35, 0.90] and non-decreasing in elapsed; with an alpha,
\* alpha_used is that value clamped into [0.05, 0.95]; every result has
\* alpha_used in [0.05, 0.95]. At elapsed 48 the automatic alpha is 0.90.
C7_AlphaClampedAndMonotone ==
    /\ AlphaUsed(None, I(48)) = Q(90, 100)
    /\ Returned(res) =>
           LET au == TheResult.alpha_used
               el == TheResult.elapsed_min
               lin == RAdd(Q(35, 100), RMul(Q(12, 1000), el))
           IN  /\ RLe(Q(5, 100), au) /\ RLe(au, Q(95, 100))
               /\ TheCall.alpha = None =>
                    /\ RLe(Q(35, 100), au) /\ RLe(au, Q(90, 100))
                    /\ au = (IF RLt(lin, Q(35, 100)) THEN Q(35, 100)
                             ELSE IF RGt(lin, Q(90, 100)) THEN Q(90, 100) ELSE lin)
                    /\ prev # <<>> =>
                         /\ RLe(prev[1].elapsed, el) => RLe(prev[1].alpha_used, au)
                         /\ RLe(el, prev[1].elapsed) => RLe(au, prev[1].alpha_used)
               /\ TheCall.alpha # None =>
                    LET al == TheCall.alpha[1]
                    IN  au = (IF RLt(al, Q(5, 100)) THEN Q(5, 100)
                              ELSE IF RGt(al, Q(95, 100)) THEN Q(95, 100) ELSE al)

\* C7 witness: two auto-alpha results, the later one at a later elapsed time
\* and with a larger alpha
C7_Witness ==
    /\ Returned(res)
    /\ TheCall.alpha = None
    /\ prev # <<>>
    /\ RLt(prev[1].elapsed, TheResult.elapsed_min)
    /\ RLt(prev[1].alpha_used, TheResult.alpha_used)

-----------------------------------------------------------------------------
(* Callers of hedge_equalize *)

HedgeArgs(side, line, stake, odds, hline, hodds, live, flags) ==
    [my_side             |-> side,
     my_line             |-> line,
     my_stake            |-> stake,
     my_odds_american    |-> odds,
     hedge_line          |-> hline,
     hedge_odds_american |-> hodds,
     live_total          |-> live,
     flags               |-> flags]

\* projections whose flag lists cover every bad / warn combination
HedgeProjCalls ==
    {Args(3, t, I(150), I(224), I(240), Some(Q(1, 2)), I(4), b, ft, fta, tp, ot) :
        t \in {"6:00", "6:30"}, b \in BOOLEAN, ft \in BOOLEAN,
        fta \in {None, Some(I(20)), Some(Q(51, 2)), Some(I(33))},
        tp \in {None, Some(Q(42, 100))}, ot \in BOOLEAN}

Sides == {"UNDER", "OVER", "under", " Over ", "PUSH"}

\* lines 0, 3, 5.5 and 6 points to either side of the live total of 224
MyLines == {I(218), Q(437, 2), I(221), I(224), I(227), Q(459, 2), I(230)}

Stakes == {I(0), I(100)}

MyOdds == {I(-110), I(0), I(150)}

HedgeOdds == {I(-110), I(0), I(120)}

\* a caller holding a projection result invokes hedge_equalize with the
\* result's flags and live total (main: flags_list, live_total=live)
CallHedgeEqualize ==
    /\ pc = "off"
    /\ Returned(res)
    /\ hcall = <<>>
    /\ \E side \in Sides, line \in MyLines, stake \in Stakes, odds \in MyOdds,
          hodds \in HedgeOdds, hline \in {res.val[1].live_total, I(221)} :
        LET h == HedgeArgs(side, line, stake, odds, hline, hodds,
                           res.val[1].live_total, FlagsList(res.val[1].flags))
        IN  /\ hcall' = <<h>>
            /\ hres' = hedge_equalize(h)
    /\ UNCHANGED <<call, res, prev, file, saved, clock, pc, loc, typed>>

HedgeNext == CallComputeProjection(HedgeProjCalls) \/ CallHedgeEqualize \/ Discard

\* the hedge engine called on the flags of projection results
SpecHedge == Init /\ [][HedgeNext]_vars

-----------------------------------------------------------------------------
(* Properties of hedge_equalize *)

TheHedgeCall == hcall[1]

TheHedge == hres.val[1]

SideError == Raise("ValueError", "my_side must be UNDER or OVER.")

ClvOfCall ==
    IF Strip(Upper(TheHedgeCall.my_side)) = "UNDER"
    THEN RSub(TheHedgeCall.my_line, TheHedgeCall.live_total)
    ELSE RSub(TheHedgeCall.live_total, TheHedgeCall.my_line)

BadOfCall ==
    Cardinality({i \in 1..Len(TheHedgeCall.flags) :
        \E n \in {"HIGH_RISK", "FT_PARADE", "HIGH_FT_RATE"} :
            Contains(TheHedgeCall.flags[i], n)})

WarnOfCall ==
    Cardinality({i \in 1..Len(TheHedgeCall.flags) :
        \E n \in {"BONUS", "ELEVATED_FT_RATE", "3P_", "OT_ON"} :
            Contains(TheHedgeCall.flags[i], n)})

\* C1: the suggestion follows the decision table, first match winning:
\* SMALL hedge if clv >= 6 and (bad >= 1 or warn >= 2); else HOLD if clv >= 6;
\* else WATCH if clv >= 3 and bad >= 1; else NO hedge signal -- for every
\* side, line pair and flag list compute_projection produces.
C1_SuggestionFollowsTable ==
    Returned(hres) =>
        /\ TheHedgeCall.flags = FlagsList(TheResult.flags)
        /\ TheHedge.suggestion =
             (IF RGe(ClvOfCall, I(6)) /\ (BadOfCall >= 1 \/ WarnOfCall >= 2)
              THEN "Consider SMALL hedge"
              ELSE IF RGe(ClvOfCall, I(6)) THEN "Hold (good CLV)"
              ELSE IF RGe(ClvOfCall, I(3)) /\ BadOfCall >= 1
              THEN "Watch closely (whistle risk)"
              ELSE "No hedge signal")

\* C1 witness: clv >= 6 with no bad flag and two warn flags gives SMALL hedge
C1_Witness ==
    /\ Returned(hres)
    /\ RGe(ClvOfCall, I(6))
    /\ BadOfCall = 0
    /\ WarnOfCall = 2
    /\ TheHedge.suggestion = "Consider SMALL hedge"

DecimalOdds(a) ==
    IF a[1] < 0 THEN RAdd(I(1), RDiv(I(100), RAbs(a))) ELSE RAdd(I(1), RDiv(a, I(100)))

-----------------------------------------------------------------------------
(* Callers of save_snapshot *)

MaxRows == 3

MaxClock == 1

SnapCalls ==
    {Args(q, "6:00", I(150), I(224), I(240), Some(Q(1, 2)), I(4), TRUE, FALSE, None, None, FALSE) :
        q \in {3, 4}}
    \cup {Args(4, "0:00", I(150), I(224), I(240), None, I(4), FALSE, FALSE, None, None, FALSE)}

\* a caller holding a result saves it; calls are made one at a time
CallSaveSnapshot ==
    /\ pc = "off"
    /\ Returned(res)
    /\ Len(saved) < MaxRows
    /\ file' = save_snapshot(file, res.val[1])
    /\ saved' = Append(saved, res.val[1])
    /\ UNCHANGED <<call, res, prev, hcall, hres, clock, pc, loc, typed>>

\* time passes
Tick ==
    /\ pc = "off"
    /\ clock < MaxClock
    /\ clock' = clock + 1
    /\ UNCHANGED <<call, res, prev, hcall, hres, file, saved, pc, loc, typed>>

SnapNext == CallComputeProjection(SnapCalls) \/ CallSaveSnapshot \/ Discard \/ Tick

\* projections computed and saved, starting from a missing snapshot file
SpecSnap == Init /\ [][SnapNext]_vars

-----------------------------------------------------------------------------
(* Properties of save_snapshot *)

IsPrefix(s, t) == Len(s) <= Len(t) /\ SubSeq(t, 1, Len(s)) = s

OneHeaderThenRows ==
    IF saved = <<>> THEN file = [exists |-> FALSE, rows |-> <<>>]
    ELSE /\ file.exists
         /\ Len(file.rows) = Len(saved) + 1
         /\ file.rows[1].kind = "header"
         /\ file.rows[1].names =
              <<"timestamp", "quarter", "time_left", "total_points", "live_total",
                "pregame_total", "elapsed_min", "alpha_used", "pace_ppm", "pace_proj",
                "blended_proj", "edge_vs_live", "needed_ppm_for_live", "lean", "flags">>
         /\ \A i \in 1..Len(saved) :
                /\ file.rows[i + 1].kind = "row"
                /\ file.rows[i + 1].values = saved[i]

\* C9: from a missing file, after any sequence of save_snapshot calls the
\* file is one header row (the field names, written by the first call only)
\* followed by one data row per call in call order; a save only appends.
C9_OneHeaderAppendOnly ==
    /\ []OneHeaderThenRows
    /\ [][IsPrefix(file.rows, file'.rows)]_vars

\* C9 witness: the file after a second save of a different result
C9_Witness ==
    /\ Len(saved) >= 2
    /\ saved[1] # saved[2]
    /\ Len(file.rows) = Len(saved) + 1

-----------------------------------------------------------------------------
(* CLI loop: main *)

\* What the user types at each prompt.
QuarterInputs == {"q", "3", "x"}

TimeLeftInputs == {"q", "6:00", "0:60"}

PointsInputs == {"q", "150"}

LiveInputs == {" Q ", "224", ""}

PregameInputs == {"q", "", "240"}

ThresholdInputs == {"q", ""}

AlphaInputs == {"q", ""}

BonusInputs == {"n", "q"}

FtParadeInputs == {"y", "q"}

YesNoInputs == {"y", "n", "q"}

OptionalInputs == {"q", ""}

OtPointsInputs == {"q", ""}

SideInputs == {"under", "q"}

LineInputs == {"230", "q"}

StakeInputs == {"100"}

OddsInputs == {"-110", "0"}

HedgeLineInputs == {"", "221"}

\* the locals an iteration assigns are not read again once it ends: a new
\* iteration starts from pregame and thr alone
Fresh(l) == Locals(l.pregame, l.thr)

\* s.lower() == "q", s being the stripped line
IsQuit(s) == Lower(s) = "q"

\* input(prompt) returned line at prompt p, and the loop went on to prompt
\* or state next with locals l
Step(p, line, next, l) ==
    /\ pc = p
    /\ typed' = <<p, line>>
    /\ pc' = next
    /\ loc' = l

\* a prompt read with: s = input(...).strip(); if s.lower() == "q": break;
\* x = float(s)     -- blank is passed to float() too
\* except Exception: print the error, next iteration
FloatPrompt(p, line, next, l) ==
    LET s == Strip(line)
    IN  IF IsQuit(s) THEN Step(p, line, "done", loc)
        ELSE IF ~FloatLiteral(s) THEN Step(p, line, "quarter", Fresh(loc))
        ELSE Step(p, line, next, l)

\* a prompt whose blank answer keeps a default or means None
OptionalPrompt(p, line, next, l) ==
    LET s == Strip(line)
    IN  IF IsQuit(s) THEN Step(p, line, "done", loc)
        ELSE IF s = "" THEN Step(p, line, next, loc)
        ELSE IF ~FloatLiteral(s) THEN Step(p, line, "quarter", Fresh(loc))
        ELSE Step(p, line, next, l)

\* input(...).strip().lower() == "y"
Yes(line) == Lower(Strip(line)) = "y"

Untouched == UNCHANGED <<call, res, prev, hcall, hres, file, saved, clock>>

AskQuarter ==
    /\ pc = "quarter"
    /\ \E line \in QuarterInputs :
        LET s == Strip(line)
        IN  /\ IF IsQuit(s) THEN Step("quarter", line, "done", loc)
               ELSE IF ~IntLiteral(s) THEN Step("quarter", line, "quarter", Fresh(loc))
               ELSE Step("quarter", line, "tleft", [loc EXCEPT !.quarter = Some(IntOf(s))])
            \* results of the previous iteration are dead from here on
            /\ call' = <<>> /\ res' = NoOutcome /\ hcall' = <<>> /\ hres' = NoOutcome
            /\ UNCHANGED <<prev, file, saved, clock>>

AskTimeLeft ==
    /\ pc = "tleft"
    /\ \E line \in TimeLeftInputs :
        LET s == Strip(line)
        IN  /\ IF IsQuit(s) THEN Step("tleft", line, "done", loc)
               ELSE Step("tleft", line, "pts", [loc EXCEPT !.tleft = Some(s)])
            /\ Untouched

AskPoints ==
    /\ pc = "pts"
    /\ \E line \in PointsInputs :
        /\ FloatPrompt("pts", line, "live", [loc EXCEPT !.pts = Some(FloatOf(line))])
        /\ Untouched

AskLive ==
    /\ pc = "live"
    /\ \E line \in LiveInputs :
        /\ FloatPrompt("live", line, "pregame", [loc EXCEPT !.live = Some(FloatOf(line))])
        /\ Untouched

AskPregame ==
    /\ pc = "pregame"
    /\ \E line \in PregameInputs :
        /\ OptionalPrompt("pregame", line, "thr", [loc EXCEPT !.pregame = FloatOf(line)])
        /\ Untouched

AskThreshold ==
    /\ pc = "thr"
    /\ \E line \in ThresholdInputs :
        /\ OptionalPrompt("thr", line, "alpha", [loc EXCEPT !.thr = FloatOf(line)])
        /\ Untouched

AskAlpha ==
    /\ pc = "alpha"
    /\ \E line \in AlphaInputs :
        /\ OptionalPrompt("alpha", line, "bonus", [loc EXCEPT !.alpha = Some(FloatOf(line))])
        /\ Untouched

AskBonus ==
    /\ pc = "bonus"
    /\ \E line \in BonusInputs :
        /\ Step("bonus", line, "ftparade", [loc EXCEPT !.bonus = Yes(line)])
        /\ Untouched

AskFtParade ==
    /\ pc = "ftparade"
    /\ \E line \in FtParadeInputs :
        /\ Step("ftparade", line, "fta", [loc EXCEPT !.ftparade = Yes(line)])
        /\ Untouched

AskFta ==
    /\ pc = "fta"
    /\ \E line \in OptionalInputs :
        /\ OptionalPrompt("fta", line, "tpct", [loc EXCEPT !.fta = Some(FloatOf(line))])
        /\ Untouched

AskThreePt ==
    /\ pc = "tpct"
    /\ \E line \in OptionalInputs :
        /\ OptionalPrompt("tpct", line, "ot_on", [loc EXCEPT !.tpct = Some(FloatOf(line))])
        /\ Untouched

MainArgs(l) ==
    [quarter            |-> l.quarter[1],
     time_left_mmss     |-> l.tleft[1],
     total_points       |-> l.pts[1],
     live_total         |-> l.live[1],
     pregame_total      |-> l.pregame,
     alpha              |-> l.alpha,
     edge_threshold     |-> l.thr,
     bonus              |-> l.bonus,
     ft_parade          |-> l.ftparade,
     bonus_boost_ppm    |-> Q(25, 100),
     fta_total          |-> l.fta,
     three_pt_pct       |-> l.tpct,
     ot_on              |-> l.ot_on,
     ot_prob_pct        |-> l.otp,
     ot_expected_points |-> l.otpts]

\* r = compute_projection(...); print_result(r); then the hedge question,
\* or the except branch and the next iteration
Project(p, line, l) ==
    LET out == compute_projection(MainArgs(l), clock)
    IN  /\ call' = <<MainArgs(l)>>
        /\ res' = out
        /\ IF out.exc # "" THEN Step(p, line, "quarter", Fresh(l))
           ELSE Step(p, line, "hedge_q", l)
        /\ UNCHANGED <<prev, hcall, hres, file, saved, clock>>

AskOvertime ==
    /\ pc = "ot_on"
    /\ \E line \in YesNoInputs :
        LET l == [loc EXCEPT !.ot_on = Yes(line), !.otp = I(6), !.otpts = I(10)]
        IN  IF Yes(line)
            THEN Step("ot_on", line, "otp", l) /\ Untouched
            ELSE Project("ot_on", line, l)

AskOtProb ==
    /\ pc = "otp"
    /\ \E line \in OptionalInputs :
        /\ OptionalPrompt("otp", line, "otpts", [loc EXCEPT !.otp = FloatOf(line)])
        /\ Untouched

AskOtPoints ==
    /\ pc = "otpts"
    /\ \E line \in OtPointsInputs :
        LET s == Strip(line)
        IN  IF IsQuit(s) THEN Step("otpts", line, "done", loc) /\ Untouched
            ELSE IF s = "" THEN Project("otpts", line, loc)
            ELSE IF ~FloatLiteral(s) THEN Step("otpts", line, "quarter", Fresh(loc)) /\ Untouched
            ELSE Project("otpts", line, [loc EXCEPT !.otpts = FloatOf(s)])

AskHedge ==
    /\ pc = "hedge_q"
    /\ \E line \in YesNoInputs :
        /\ Step("hedge_q", line, IF Yes(line) THEN "my_side" ELSE "save_q", loc)
        /\ Untouched

\* my_side = input(...).strip().upper()
AskSide ==
    /\ pc = "my_side"
    /\ \E line \in SideInputs :
        /\ Step("my_side", line, "my_line", [loc EXCEPT !.my_side = Some(Upper(Strip(line)))])
        /\ Untouched

\* x = float(input(...).strip()): no quit test
PlainFloat(p, line, next, l) ==
    IF ~FloatLiteral(Strip(line)) THEN Step(p, line, "quarter", Fresh(loc))
    ELSE Step(p, line, next, l)

AskLine ==
    /\ pc = "my_line"
    /\ \E line \in LineInputs :
        /\ PlainFloat("my_line", line, "my_stake", [loc EXCEPT !.my_line = Some(FloatOf(line))])
        /\ Untouched

AskStake ==
    /\ pc = "my_stake"
    /\ \E line \in StakeInputs :
        /\ PlainFloat("my_stake", line, "my_odds", [loc EXCEPT !.my_stake = Some(FloatOf(line))])
        /\ Untouched

AskOdds ==
    /\ pc = "my_odds"
    /\ \E line \in OddsInputs :
        /\ PlainFloat("my_odds", line, "hedge_line", [loc EXCEPT !.my_odds = Some(FloatOf(line))])
        /\ Untouched

\* hedge_line = live if s == "" else float(s)
AskHedgeLine ==
    /\ pc = "hedge_line"
    /\ \E line \in HedgeLineInputs :
        /\ IF Strip(line) = ""
           THEN Step("hedge_line", line, "hedge_odds", [loc EXCEPT !.hedge_line = loc.live])
           ELSE PlainFloat("hedge_line", line, "hedge_odds",
                           [loc EXCEPT !.hedge_line = Some(FloatOf(line))])
        /\ Untouched

\* hedge_odds = float(...); h = hedge_equalize(...); the hedge output
AskHedgeOdds ==
    /\ pc = "hedge_odds"
    /\ \E line \in OddsInputs :
        IF ~FloatLiteral(Strip(line))
        THEN Step("hedge_odds", line, "quarter", Fresh(loc)) /\ Untouched
        ELSE LET h == HedgeArgs(loc.my_side[1], loc.my_line[1], loc.my_stake[1],
                                loc.my_odds[1], loc.hedge_line[1], FloatOf(line),
                                loc.live[1], FlagsList(res.val[1].flags))
                 out == hedge_equalize(h)
             IN  /\ hcall' = <<h>>
                 /\ hres' = out
                 /\ IF out.exc # "" THEN Step("hedge_odds", line, "quarter", Fresh(loc))
                    ELSE Step("hedge_odds", line, "save_q", loc)
                 /\ UNCHANGED <<call, res, prev, file, saved, clock>>

\* if input(...).strip().lower() == "y": save_snapshot(r); next iteration
AskSave ==
    /\ pc = "save_q"
    /\ \E line \in YesNoInputs :
        /\ Step("save_q", line, "quarter", Fresh(loc))
        /\ IF Yes(line)
           THEN /\ Len(saved) < MaxRows
                /\ file' = save_snapshot(file, res.val[1])
                /\ saved' = Append(saved, res.val[1])
           ELSE UNCHANGED <<file, saved>>
        /\ UNCHANGED <<call, res, prev, hcall, hres, clock>>

MainNext ==
    \/ AskQuarter \/ AskTimeLeft \/ AskPoints \/ AskLive \/ AskPregame \/ AskThreshold
    \/ AskAlpha \/ AskBonus \/ AskFtParade \/ AskFta \/ AskThreePt \/ AskOvertime
    \/ AskOtProb \/ AskOtPoints \/ AskHedge \/ AskSide \/ AskLine \/ AskStake \/ AskOdds
    \/ AskHedgeLine \/ AskHedgeOdds \/ AskSave

InitMain ==
    /\ call = <<>>
    /\ res = NoOutcome
    /\ prev = <<>>
    /\ hcall = <<>>
    /\ hres = NoOutcome
    /\ file = NoFile
    /\ saved = <<>>
    /\ clock = 0
    /\ pc = "quarter"
    /\ loc = InitialLocals
    /\ typed = <<>>

\* main() run from a missing snapshot file
SpecMain == InitMain /\ [][MainNext]_vars

-----------------------------------------------------------------------------
(* Properties of main *)

\* C8 (as stated): typing 'q' at any input prompt ends the loop: main returns
\* without a further prompt, projection or save.
C8_QuitAtAnyPrompt ==
    (typed # <<>> /\ Lower(Strip(typed[2])) = "q") => pc = "done"

=============================================================================
